---- MODULE Spec2Model ----
(***************************************************************************)
(* Binary codec and block-hash derivation of src/block.rs: Header,         *)
(* Digest, DigestItem / DigestItemRef / DigestItemType, ChangesTrieSignal, *)
(* ChangesTrieConfiguration, Extrinsic, Block and StorageProof.            *)
(*                                                                         *)
(* The types are immutable values and encode/decode are pure functions,    *)
(* so the state machine is a codec session: a value is constructed, it is  *)
(* encoded into a byte stream, the stream may be cut short or altered in   *)
(* flight, and it is decoded again; headers and blocks are also hashed.    *)
(***************************************************************************)
EXTENDS Integers, Sequences, FiniteSets, TLC

VARIABLES val, other, wire, via, input, out, hash, hash2, step

vars == <<val, other, wire, via, input, out, hash, hash2, step>>

(***************************************************************************)
(* Bounds of the model.                                                    *)
(***************************************************************************)
MaxBlobLen == 2
MaxLogs == 1
MaxExtrinsics == 1
MaxNodes == 1

(***************************************************************************)
(* Program constants.                                                      *)
(***************************************************************************)
HashLen == 32
EngineIdLen == 4

Byte == 0 .. 255

(***************************************************************************)
(* Input / Output and the Result of a decode.                              *)
(***************************************************************************)
Ok(v, rest) == [ok |-> TRUE, val |-> v, rest |-> rest]

Err(kind) == [ok |-> FALSE, err |-> kind]

\* The ? operator: an error is returned at once, a success is passed on.
Then(r, F(_)) == CHOOSE y \in {IF r0.ok THEN F(r0) ELSE r0 : r0 \in {r}} : TRUE

Drop(s, n) == SubSeq(s, n + 1, Len(s))

Take(s, n) == SubSeq(s, 1, n)

\* Input::read_byte on a byte slice.
ReadByte(s) ==
    IF Len(s) < 1 THEN Err("Truncated") ELSE Ok(s[1], Drop(s, 1))

\* Input::read of exactly n bytes on a byte slice.
ReadBytes(s, n) ==
    IF Len(s) < n THEN Err("Truncated") ELSE Ok(Take(s, n), Drop(s, n))

(***************************************************************************)
(* Fixed-width integers.  A u32 is written as 4 little-endian bytes.       *)
(***************************************************************************)
U32Encode(n) ==
    <<n % 256, (n \div 256) % 256, (n \div 65536) % 256, (n \div 16777216) % 256>>

U32FromLE(b) == b[1] + 256 * b[2] + 65536 * b[3] + 16777216 * b[4]

U32Decode(s) ==
    Then(ReadBytes(s, 4), LAMBDA r : Ok(U32FromLE(r.val), r.rest))

(***************************************************************************)
(* Compact<u32>: the two low bits of the first byte select the mode.       *)
(***************************************************************************)
\* Faulty variant: the thresholds taken as inclusive.
CompactLenBug(n) ==
    IF n <= 2^6 THEN 1 ELSE IF n <= 2^14 THEN 2 ELSE IF n <= 2^30 THEN 4 ELSE 5

CompactModeLen(n) ==
    IF n < 2^6 THEN 1 ELSE IF n < 2^14 THEN 2 ELSE IF n < 2^30 THEN 4 ELSE 5

CompactU32Encode(n) ==
    LET m == CompactModeLen(n)
    IN  CASE m = 1 -> <<n * 4>>
          [] m = 2 -> <<(n % 64) * 4 + 1, n \div 64>>
          [] m = 4 -> <<(n % 64) * 4 + 2, (n \div 64) % 256,
                        (n \div 2^14) % 256, (n \div 2^22) % 256>>
          [] OTHER -> <<3>> \o U32Encode(n)

CompactValue(x, lo, hi, rest) ==
    IF x > lo /\ x <= hi THEN Ok(x, rest) ELSE Err("Malformed")

CompactU32Decode(s) ==
    Then(ReadByte(s), LAMBDA p :
        CASE p.val % 4 = 0 -> Ok(p.val \div 4, p.rest)
          [] p.val % 4 = 1 ->
                Then(ReadBytes(p.rest, 1), LAMBDA r :
                    CompactValue((p.val \div 4) + 64 * r.val[1],
                                 2^6 - 1, 2^14 - 1, r.rest))
          [] p.val % 4 = 2 ->
                Then(ReadBytes(p.rest, 3), LAMBDA r :
                    CompactValue((p.val \div 4) + 64 * r.val[1]
                                 + 2^14 * r.val[2] + 2^22 * r.val[3],
                                 2^14 - 1, 2^30 - 1, r.rest))
          [] OTHER ->
                IF p.val \div 4 # 0 THEN Err("Malformed")
                ELSE Then(U32Decode(p.rest), LAMBDA r :
                        IF r.val > 2^30 - 1 THEN r ELSE Err("Malformed")))

(***************************************************************************)
(* Vec<u8>: compact length, then the raw bytes.                            *)
(***************************************************************************)
BytesEncode(b) == CompactU32Encode(Len(b)) \o b

\* Faulty variant: a short payload is returned instead of an error.
BytesDecodeLax(s) ==
    Then(CompactU32Decode(s), LAMBDA n :
        IF Len(n.rest) < n.val THEN Ok(n.rest, <<>>)
        ELSE Ok(Take(n.rest, n.val), Drop(n.rest, n.val)))

BytesDecode(s) ==
    Then(CompactU32Decode(s), LAMBDA n :
        IF Len(n.rest) < n.val THEN Err("InvalidLength")
        ELSE Ok(Take(n.rest, n.val), Drop(n.rest, n.val)))

(***************************************************************************)
(* 256-bit values.  A U256 is a number, held here as its 32 base-256       *)
(* digits, most significant first; it is written little-endian.  An H256   *)
(* is a fixed array of 32 bytes written as it is.                          *)
(***************************************************************************)
Reverse(s) == [i \in 1 .. Len(s) |-> s[Len(s) + 1 - i]]

U256Encode(x) == Reverse(x)

U256Decode(s) ==
    Then(ReadBytes(s, HashLen), LAMBDA r : Ok(Reverse(r.val), r.rest))

H256Encode(h) == h

H256Decode(s) == ReadBytes(s, HashLen)

(***************************************************************************)
(* DigestItemType: a derived enum codec, one byte holding the explicit     *)
(* discriminant of the variant.                                            *)
(***************************************************************************)
Variants ==
    {"Other", "ChangesTrieRoot", "Consensus", "Seal", "PreRuntime",
     "ChangesTrieSignal"}

\* Faulty variant: the tags follow the declaration order, without gaps.
DiscriminantPositional(t) ==
    CASE t = "Other" -> 0
      [] t = "ChangesTrieRoot" -> 1
      [] t = "Consensus" -> 2
      [] t = "Seal" -> 3
      [] t = "PreRuntime" -> 4
      [] t = "ChangesTrieSignal" -> 5

Discriminant(t) ==
    CASE t = "Other" -> 0
      [] t = "ChangesTrieRoot" -> 2
      [] t = "Consensus" -> 4
      [] t = "Seal" -> 5
      [] t = "PreRuntime" -> 6
      [] t = "ChangesTrieSignal" -> 7

DigestItemTypeEncode(t) == <<Discriminant(t)>>

\* Faulty variant: an unknown tag is read as Other.
DigestItemTypeDecodeLenient(s) ==
    Then(ReadByte(s), LAMBDA b :
        IF \E t \in Variants : Discriminant(t) = b.val
        THEN Ok(CHOOSE t \in Variants : Discriminant(t) = b.val, b.rest)
        ELSE Ok("Other", b.rest))

DigestItemTypeDecode(s) ==
    Then(ReadByte(s), LAMBDA b :
        IF \E t \in Variants : Discriminant(t) = b.val
        THEN Ok(CHOOSE t \in Variants : Discriminant(t) = b.val, b.rest)
        ELSE Err("InvalidDiscriminant"))

(***************************************************************************)
(* ChangesTrieConfiguration, Option<ChangesTrieConfiguration> and          *)
(* ChangesTrieSignal (a derived enum with the one variant                  *)
(* NewConfiguration, index 0).                                             *)
(***************************************************************************)
NoConfiguration == [some |-> FALSE]

SomeConfiguration(i, l) ==
    [some |-> TRUE, digest_interval |-> i, digest_levels |-> l]

NewConfiguration(c) == [variant |-> "NewConfiguration", config |-> c]

ChangesTrieConfigurationEncode(c) ==
    U32Encode(c.digest_interval) \o U32Encode(c.digest_levels)

ChangesTrieConfigurationDecode(s) ==
    Then(U32Decode(s), LAMBDA i :
    Then(U32Decode(i.rest), LAMBDA l :
        Ok(SomeConfiguration(i.val, l.val), l.rest)))

OptionConfigurationEncode(c) ==
    IF c.some THEN <<1>> \o ChangesTrieConfigurationEncode(c) ELSE <<0>>

OptionConfigurationDecode(s) ==
    Then(ReadByte(s), LAMBDA b :
        CASE b.val = 0 -> Ok(NoConfiguration, b.rest)
          [] b.val = 1 -> ChangesTrieConfigurationDecode(b.rest)
          [] OTHER -> Err("Malformed"))

\* Faulty variant: the variant index of the signal is not written.
ChangesTrieSignalEncodeNoIndex(sig) == OptionConfigurationEncode(sig.config)

ChangesTrieSignalEncode(sig) == <<0>> \o OptionConfigurationEncode(sig.config)

ChangesTrieSignalDecode(s) ==
    Then(ReadByte(s), LAMBDA b :
        IF b.val # 0 THEN Err("Malformed")
        ELSE Then(OptionConfigurationDecode(b.rest), LAMBDA c :
                Ok(NewConfiguration(c.val), c.rest)))

(***************************************************************************)
(* ([u8; 4], Vec<u8>): the engine id as 4 raw bytes, then the payload.     *)
(***************************************************************************)
EnginePairEncode(e, d) == e \o BytesEncode(d)

EnginePairDecode(s) ==
    Then(ReadBytes(s, EngineIdLen), LAMBDA e :
    Then(BytesDecode(e.rest), LAMBDA d :
        Ok([engine |-> e.val, data |-> d.val], d.rest)))

(***************************************************************************)
(* DigestItem (owning) and DigestItemRef (borrowing).                      *)
(***************************************************************************)
ChangesTrieRoot(h) ==
    [kind |-> "DigestItem", variant |-> "ChangesTrieRoot", hash |-> h]

PreRuntime(e, d) ==
    [kind |-> "DigestItem", variant |-> "PreRuntime", engine |-> e, data |-> d]

Consensus(e, d) ==
    [kind |-> "DigestItem", variant |-> "Consensus", engine |-> e, data |-> d]

Seal(e, d) ==
    [kind |-> "DigestItem", variant |-> "Seal", engine |-> e, data |-> d]

ChangesTrieSignal(sig) ==
    [kind |-> "DigestItem", variant |-> "ChangesTrieSignal", signal |-> sig]

Other(d) == [kind |-> "DigestItem", variant |-> "Other", data |-> d]

RefChangesTrieRoot(h) ==
    [kind |-> "DigestItemRef", variant |-> "ChangesTrieRoot", hash |-> h]

RefPreRuntime(e, d) ==
    [kind |-> "DigestItemRef", variant |-> "PreRuntime", engine |-> e,
     data |-> d]

RefConsensus(e, d) ==
    [kind |-> "DigestItemRef", variant |-> "Consensus", engine |-> e,
     data |-> d]

RefSeal(e, d) ==
    [kind |-> "DigestItemRef", variant |-> "Seal", engine |-> e, data |-> d]

RefChangesTrieSignal(sig) ==
    [kind |-> "DigestItemRef", variant |-> "ChangesTrieSignal", signal |-> sig]

RefOther(d) == [kind |-> "DigestItemRef", variant |-> "Other", data |-> d]

\* Faulty variant: Consensus and Seal give each other's view.
drefSwapped(x) ==
    CASE x.variant = "ChangesTrieRoot" -> RefChangesTrieRoot(x.hash)
      [] x.variant = "PreRuntime" -> RefPreRuntime(x.engine, x.data)
      [] x.variant = "Consensus" -> RefSeal(x.engine, x.data)
      [] x.variant = "Seal" -> RefConsensus(x.engine, x.data)
      [] x.variant = "ChangesTrieSignal" -> RefChangesTrieSignal(x.signal)
      [] x.variant = "Other" -> RefOther(x.data)

dref(x) ==
    CASE x.variant = "ChangesTrieRoot" -> RefChangesTrieRoot(x.hash)
      [] x.variant = "PreRuntime" -> RefPreRuntime(x.engine, x.data)
      [] x.variant = "Consensus" -> RefConsensus(x.engine, x.data)
      [] x.variant = "Seal" -> RefSeal(x.engine, x.data)
      [] x.variant = "ChangesTrieSignal" -> RefChangesTrieSignal(x.signal)
      [] x.variant = "Other" -> RefOther(x.data)

DigestItemRefEncode(r) ==
    CASE r.variant = "ChangesTrieRoot" ->
            DigestItemTypeEncode("ChangesTrieRoot") \o H256Encode(r.hash)
      [] r.variant = "Consensus" ->
            DigestItemTypeEncode("Consensus")
            \o EnginePairEncode(r.engine, r.data)
      [] r.variant = "Seal" ->
            DigestItemTypeEncode("Seal") \o EnginePairEncode(r.engine, r.data)
      [] r.variant = "PreRuntime" ->
            DigestItemTypeEncode("PreRuntime")
            \o EnginePairEncode(r.engine, r.data)
      [] r.variant = "ChangesTrieSignal" ->
            DigestItemTypeEncode("ChangesTrieSignal")
            \o ChangesTrieSignalEncode(r.signal)
      [] r.variant = "Other" ->
            DigestItemTypeEncode("Other") \o BytesEncode(r.data)

DigestItemEncode(x) == DigestItemRefEncode(dref(x))

DigestItemDecode(s) ==
    Then(DigestItemTypeDecode(s), LAMBDA t :
        CASE t.val = "ChangesTrieRoot" ->
                Then(H256Decode(t.rest), LAMBDA h :
                    Ok(ChangesTrieRoot(h.val), h.rest))
          [] t.val = "PreRuntime" ->
                Then(EnginePairDecode(t.rest), LAMBDA p :
                    Ok(PreRuntime(p.val.engine, p.val.data), p.rest))
          [] t.val = "Consensus" ->
                Then(EnginePairDecode(t.rest), LAMBDA p :
                    Ok(Consensus(p.val.engine, p.val.data), p.rest))
          [] t.val = "Seal" ->
                Then(EnginePairDecode(t.rest), LAMBDA p :
                    Ok(Seal(p.val.engine, p.val.data), p.rest))
          [] t.val = "ChangesTrieSignal" ->
                Then(ChangesTrieSignalDecode(t.rest), LAMBDA g :
                    Ok(ChangesTrieSignal(g.val), g.rest))
          [] t.val = "Other" ->
                Then(BytesDecode(t.rest), LAMBDA d :
                    Ok(Other(d.val), d.rest)))

(***************************************************************************)
(* Vec<T> for the element types of this file: compact count, then the      *)
(* elements in order.  Extrinsic is a one-field struct around Vec<u8>.     *)
(***************************************************************************)
Extrinsic(b) == [blob |-> b]

ElemEncode(t, x) ==
    CASE t = "DigestItem" -> DigestItemEncode(x)
      [] t = "Extrinsic" -> BytesEncode(x.blob)
      [] t = "Bytes" -> BytesEncode(x)

ElemDecode(t, s) ==
    CASE t = "DigestItem" -> DigestItemDecode(s)
      [] t = "Extrinsic" ->
            Then(BytesDecode(s), LAMBDA b : Ok(Extrinsic(b.val), b.rest))
      [] t = "Bytes" -> BytesDecode(s)

RECURSIVE ConcatEncode(_, _)
ConcatEncode(t, xs) ==
    IF xs = <<>> THEN <<>>
    ELSE ElemEncode(t, Head(xs)) \o ConcatEncode(t, Tail(xs))

VecEncode(t, xs) == CompactU32Encode(Len(xs)) \o ConcatEncode(t, xs)

RECURSIVE VecDecodeLoop(_, _, _, _)
VecDecodeLoop(t, s, n, acc) ==
    IF n = 0 THEN Ok(acc, s)
    ELSE Then(ElemDecode(t, s), LAMBDA r :
            VecDecodeLoop(t, r.rest, n - 1, Append(acc, r.val)))

VecDecode(t, s) ==
    Then(CompactU32Decode(s), LAMBDA n : VecDecodeLoop(t, n.rest, n.val, <<>>))

(***************************************************************************)
(* Digest<H256>.                                                           *)
(***************************************************************************)
Digest(logs) == [logs |-> logs]

DigestEncode(d) == VecEncode("DigestItem", d.logs)

DigestDecode(s) ==
    Then(VecDecode("DigestItem", s), LAMBDA l : Ok(Digest(l.val), l.rest))

(***************************************************************************)
(* Header.                                                                 *)
(***************************************************************************)
Header(p, n, s, e, d) ==
    [kind |-> "Header", parent_hash |-> p, number |-> n, state_root |-> s,
     extrinsics_root |-> e, digest |-> d]

\* Faulty variant: the two roots are written in the other order.
HeaderEncodeSwappedRoots(h) ==
    U256Encode(h.parent_hash) \o CompactU32Encode(h.number)
    \o U256Encode(h.extrinsics_root) \o U256Encode(h.state_root)
    \o DigestEncode(h.digest)

\* Faulty variant: extrinsics_root is written in the place of state_root.
HeaderEncodeNoStateRoot(h) ==
    U256Encode(h.parent_hash) \o CompactU32Encode(h.number)
    \o U256Encode(h.extrinsics_root) \o U256Encode(h.extrinsics_root)
    \o DigestEncode(h.digest)

HeaderEncode(h) ==
    U256Encode(h.parent_hash) \o CompactU32Encode(h.number)
    \o U256Encode(h.state_root) \o U256Encode(h.extrinsics_root)
    \o DigestEncode(h.digest)

\* Faulty variant: the number is read as a fixed-width u32.
HeaderDecodeFixedNumber(s0) ==
    Then(U256Decode(s0), LAMBDA p :
    Then(U32Decode(p.rest), LAMBDA n :
    Then(U256Decode(n.rest), LAMBDA s :
    Then(U256Decode(s.rest), LAMBDA e :
    Then(DigestDecode(e.rest), LAMBDA d :
        Ok(Header(p.val, n.val, s.val, e.val, d.val), d.rest))))))

HeaderDecode(s0) ==
    Then(U256Decode(s0), LAMBDA p :
    Then(CompactU32Decode(p.rest), LAMBDA n :
    Then(U256Decode(n.rest), LAMBDA s :
    Then(U256Decode(s.rest), LAMBDA e :
    Then(DigestDecode(e.rest), LAMBDA d :
        Ok(Header(p.val, n.val, s.val, e.val, d.val), d.rest))))))

(***************************************************************************)
(* Block and StorageProof: derived codecs, the fields in declaration order.*)
(***************************************************************************)
Block(h, xs) == [kind |-> "Block", header |-> h, extrinsics |-> xs]

BlockEncode(b) == HeaderEncode(b.header) \o VecEncode("Extrinsic", b.extrinsics)

BlockDecode(s) ==
    Then(HeaderDecode(s), LAMBDA h :
    Then(VecDecode("Extrinsic", h.rest), LAMBDA x :
        Ok(Block(h.val, x.val), x.rest)))

StorageProof(nodes) == [kind |-> "StorageProof", trie_nodes |-> nodes]

StorageProofEncode(p) == VecEncode("Bytes", p.trie_nodes)

StorageProofDecode(s) ==
    Then(VecDecode("Bytes", s), LAMBDA n : Ok(StorageProof(n.val), n.rest))

(***************************************************************************)
(* Block hash.  The Blake2b primitive is external: it is kept as an opaque *)
(* injective function of the hashed bytes, the key and the output length.  *)
(***************************************************************************)
blake2_256_into(data) ==
    [alg |-> "VarBlake2b", key |-> <<>>, outlen |-> HashLen, data |-> data]

BlockHash(out32) == [BlockHash |-> out32]

Header_block_hash(h) == BlockHash(blake2_256_into(HeaderEncode(h)))

\* Faulty variant: the whole block is hashed.
Block_block_hash_whole(b) == BlockHash(blake2_256_into(BlockEncode(b)))

Block_block_hash(b) == Header_block_hash(b.header)

(***************************************************************************)
(* Encode / decode by the type of the value.                               *)
(***************************************************************************)
Encode(v) ==
    CASE v.kind = "Header" -> HeaderEncode(v)
      [] v.kind = "DigestItem" -> DigestItemEncode(v)
      [] v.kind = "DigestItemRef" -> DigestItemRefEncode(v)
      [] v.kind = "Block" -> BlockEncode(v)
      [] v.kind = "StorageProof" -> StorageProofEncode(v)

Decode(k, s) ==
    CASE k = "Header" -> HeaderDecode(s)
      [] k = "DigestItem" -> DigestItemDecode(s)
      [] k = "Block" -> BlockDecode(s)
      [] k = "StorageProof" -> StorageProofDecode(s)

(***************************************************************************)
(* The values the session draws from.                                      *)
(***************************************************************************)
BoundedSeq(S, n) == UNION {[1 .. k -> S] : k \in 0 .. n}

U256Zero == [i \in 1 .. HashLen |-> 0]

U256One == [i \in 1 .. HashLen |-> IF i = HashLen THEN 1 ELSE 0]

U256Mixed == [i \in 1 .. HashLen |-> i]

U256s == {U256Zero, U256One, U256Mixed}

H256Zero == [i \in 1 .. HashLen |-> 0]

H256Mixed == [i \in 1 .. HashLen |-> 2 * i]

H256s == {H256Zero, H256Mixed}

AURA == <<65, 85, 82, 65>>

BABE == <<66, 65, 66, 69>>

Engines == {AURA, BABE}

LongBlob == [i \in 1 .. 2^6 |-> 0]

Blobs == BoundedSeq({1, 2}, MaxBlobLen) \cup {<<1, 2, 3>>, <<255, 0>>, LongBlob}

Configurations ==
    {NoConfiguration, SomeConfiguration(0, 0), SomeConfiguration(4, 2),
     SomeConfiguration(2^30, 1), SomeConfiguration(1, 2147483647)}

Numbers ==
    {0, 1, 2^6 - 1, 2^6, 2^14 - 1, 2^14, 2^30 - 1, 2^30, 2147483647}

DigestItems ==
    {ChangesTrieRoot(h) : h \in H256s}
    \cup {PreRuntime(e, d) : e \in Engines, d \in Blobs}
    \cup {Consensus(e, d) : e \in Engines, d \in Blobs}
    \cup {Seal(e, d) : e \in Engines, d \in Blobs}
    \cup {ChangesTrieSignal(NewConfiguration(c)) : c \in Configurations}
    \cup {Other(d) : d \in Blobs}

HeaderItems ==
    {ChangesTrieRoot(H256Mixed), PreRuntime(AURA, <<1, 2>>),
     Consensus(BABE, <<>>), Seal(AURA, <<2>>),
     ChangesTrieSignal(NewConfiguration(SomeConfiguration(4, 2))),
     Other(<<1, 2, 3>>)}

Digests == {Digest(l) : l \in BoundedSeq(HeaderItems, MaxLogs)}

Roots ==
    {<<U256Zero, U256Zero, U256Zero>>, <<U256Mixed, U256One, U256Zero>>,
     <<U256One, U256Mixed, U256Mixed>>}

Headers ==
    {Header(r[1], n, r[2], r[3], d) : r \in Roots, n \in Numbers, d \in Digests}

Genesis == Header(U256Zero, 0, U256Zero, U256Zero, Digest(<<>>))

BlockHeaders ==
    {Genesis,
     Header(U256Mixed, 2^6, U256One, U256Zero,
            Digest(<<PreRuntime(AURA, <<1, 2>>)>>))}

ExtrinsicSeqs ==
    BoundedSeq({Extrinsic(<<>>), Extrinsic(<<1, 2, 3>>), Extrinsic(LongBlob)},
               MaxExtrinsics)

Blocks == {Block(h, xs) : h \in BlockHeaders, xs \in ExtrinsicSeqs}

StorageProofs ==
    {StorageProof(ns) :
        ns \in BoundedSeq({<<>>, <<1>>, <<1, 2, 3>>, LongBlob}, MaxNodes)}

Values == Headers \cup DigestItems \cup Blocks \cup StorageProofs

\* The headers that differ from h in at most one field.
Perturb(h) ==
    {h}
    \cup {[h EXCEPT !.parent_hash = x] : x \in U256s}
    \cup {[h EXCEPT !.number = n] : n \in Numbers}
    \cup {[h EXCEPT !.state_root = x] : x \in U256s}
    \cup {[h EXCEPT !.extrinsics_root = x] : x \in U256s}
    \cup {[h EXCEPT !.digest = d] : d \in Digests}

\* A view a producer builds over payload it already owns.
View(x) == [x EXCEPT !.kind = "DigestItemRef"]

None == [kind |-> "None"]

NotRun == Err("NotRun")

NoHash == BlockHash(blake2_256_into(<<>>))

(***************************************************************************)
(* Streams altered in flight: a changed leading tag, a length prefix that  *)
(* claims more than follows.                                               *)
(***************************************************************************)
TagBytes == Byte

OverclaimBy == {1, 2^6, 2^30}

HasPayload(v) ==
    \/ v.kind \in {"Header", "Block", "StorageProof"}
    \/ v.kind = "DigestItem"
       /\ v.variant \in {"PreRuntime", "Consensus", "Seal", "Other"}

OverclaimStream(v, d) ==
    CASE v.kind = "Header" ->
            U256Encode(v.parent_hash) \o CompactU32Encode(v.number)
            \o U256Encode(v.state_root) \o U256Encode(v.extrinsics_root)
            \o CompactU32Encode(Len(v.digest.logs) + d)
            \o ConcatEncode("DigestItem", v.digest.logs)
      [] v.kind = "Block" ->
            HeaderEncode(v.header)
            \o CompactU32Encode(Len(v.extrinsics) + d)
            \o ConcatEncode("Extrinsic", v.extrinsics)
      [] v.kind = "StorageProof" ->
            CompactU32Encode(Len(v.trie_nodes) + d)
            \o ConcatEncode("Bytes", v.trie_nodes)
      [] v.kind = "DigestItem" /\ v.variant = "Other" ->
            DigestItemTypeEncode("Other")
            \o CompactU32Encode(Len(v.data) + d) \o v.data
      [] OTHER ->
            DigestItemTypeEncode(v.variant) \o v.engine
            \o CompactU32Encode(Len(v.data) + d) \o v.data

(***************************************************************************)
(* The session.                                                            *)
(***************************************************************************)
Init ==
    /\ val \in Values
    /\ other = None
    /\ wire = <<>>
    /\ via = "none"
    /\ input = "none"
    /\ out = NotRun
    /\ hash = NoHash
    /\ hash2 = NoHash
    /\ step = "new"

\* value.encode()
EncodeOwned ==
    /\ step = "new"
    /\ wire' = Encode(val)
    /\ via' = "owned"
    /\ input' = "exact"
    /\ step' = "encoded"
    /\ UNCHANGED <<val, other, out, hash, hash2>>

\* DigestItemRef::X(&payload).encode() by a producer that owns the payload
EncodeBorrowed ==
    /\ step = "new"
    /\ val.kind = "DigestItem"
    /\ wire' = Encode(View(val))
    /\ via' = "ref"
    /\ input' = "exact"
    /\ step' = "encoded"
    /\ UNCHANGED <<val, other, out, hash, hash2>>

\* the stream ends early
Truncate ==
    /\ step = "encoded"
    /\ input = "exact"
    /\ \E k \in 0 .. Len(wire) - 1 : wire' = Take(wire, k)
    /\ input' = "truncated"
    /\ UNCHANGED <<val, other, via, out, hash, hash2, step>>

\* the leading tag of a digest item is another byte
Retag ==
    /\ step = "encoded"
    /\ input = "exact"
    /\ val.kind = "DigestItem"
    /\ \E t \in TagBytes : t # wire[1] /\ wire' = <<t>> \o Tail(wire)
    /\ input' = "retagged"
    /\ UNCHANGED <<val, other, via, out, hash, hash2, step>>

\* a length prefix claims more bytes or items than follow
Overclaim ==
    /\ step = "encoded"
    /\ input = "exact"
    /\ HasPayload(val)
    /\ \E d \in OverclaimBy : wire' = OverclaimStream(val, d)
    /\ input' = "overclaimed"
    /\ UNCHANGED <<val, other, via, out, hash, hash2, step>>

\* T::decode(&mut &wire[..])
DecodeStream ==
    /\ step = "encoded"
    /\ out' = Decode(val.kind, wire)
    /\ step' = "decoded"
    /\ UNCHANGED <<val, other, wire, via, input, hash, hash2>>

\* header.block_hash() of two headers
HashHeaders ==
    /\ step = "new"
    /\ val.kind = "Header"
    /\ \E o \in Perturb(val) :
          /\ other' = o
          /\ hash2' = Header_block_hash(o)
    /\ hash' = Header_block_hash(val)
    /\ step' = "hashed"
    /\ UNCHANGED <<val, wire, via, input, out>>

\* block.block_hash() of two blocks
HashBlocks ==
    /\ step = "new"
    /\ val.kind = "Block"
    /\ \E o \in Blocks :
          /\ other' = o
          /\ hash2' = Block_block_hash(o)
    /\ hash' = Block_block_hash(val)
    /\ step' = "hashed"
    /\ UNCHANGED <<val, wire, via, input, out>>

Next ==
    \/ EncodeOwned
    \/ EncodeBorrowed
    \/ Truncate
    \/ Retag
    \/ Overclaim
    \/ DecodeStream
    \/ HashHeaders
    \/ HashBlocks

Spec == Init /\ [][Next]_vars

(***************************************************************************)
(* Properties.                                                             *)
(***************************************************************************)
Exact == input = "exact"

Encoded(k) == step = "encoded" /\ Exact /\ val.kind = k

Decoded(k) == step = "decoded" /\ val.kind = k

\* The 32 bytes of a 256-bit number, least significant first.
LittleEndian(x) == [i \in 1 .. HashLen |-> x[HashLen + 1 - i]]

\* The 4 bytes of a 32-bit number, least significant first.
FourBytes(n) ==
    <<n % 2^8, (n \div 2^8) % 2^8, (n \div 2^16) % 2^8, (n \div 2^24) % 2^8>>

\* The number of bytes the compact format takes for n.
CompactBytes(n) ==
    IF n < 2^6 THEN 1 ELSE IF n < 2^14 THEN 2 ELSE IF n < 2^30 THEN 4 ELSE 5

\* C1: decoding the bytes produced by encode(v) succeeds, consumes them all
\* and returns a value equal to v, for Header, DigestItem (all six
\* variants), Block and StorageProof.
RoundTrip ==
    (step = "decoded" /\ Exact) =>
        /\ out.ok
        /\ out.val = val
        /\ out.rest = <<>>

RoundTripWitness ==
    /\ step = "decoded"
    /\ Exact
    /\ val = Block(Genesis, <<Extrinsic(<<1, 2, 3>>)>>)
    /\ out.ok
    /\ out.val = val

\* C2: a Header is written as parent_hash (32 bytes), compact(number),
\* state_root (32 bytes), extrinsics_root (32 bytes) and the digest (compact
\* item count, then each item), in this order; decode reads the same five
\* fields at the same places, the number in the compact format.
HeaderLayout ==
    /\ Encoded("Header") =>
          wire = LittleEndian(val.parent_hash)
                 \o CompactU32Encode(val.number)
                 \o LittleEndian(val.state_root)
                 \o LittleEndian(val.extrinsics_root)
                 \o CompactU32Encode(Len(val.digest.logs))
                 \o ConcatEncode("DigestItem", val.digest.logs)
    /\ (Decoded("Header") /\ Len(wire) >= HashLen /\ out.ok) =>
          LET n == CompactU32Decode(Drop(wire, HashLen))
              d == DigestDecode(Drop(n.rest, 2 * HashLen))
          IN  /\ n.ok /\ d.ok
              /\ LittleEndian(out.val.parent_hash) = Take(wire, HashLen)
              /\ out.val.number = n.val
              /\ LittleEndian(out.val.state_root) = Take(n.rest, HashLen)
              /\ LittleEndian(out.val.extrinsics_root)
                    = SubSeq(n.rest, HashLen + 1, 2 * HashLen)
              /\ out.val.digest = d.val
              /\ out.rest = d.rest

HeaderLayoutWitness ==
    /\ Decoded("Header")
    /\ Exact
    /\ out.ok
    /\ val.number = 2^14
    /\ val.state_root # val.extrinsics_root
    /\ val.digest.logs # <<>>

\* C3 as stated: the encoding of a DigestItem begins with its tag written
\* as a compact-encoded u32 discriminant.
TagIsCompactU32 ==
    Encoded("DigestItem") =>
        LET c == CompactU32Encode(Discriminant(val.variant))
        IN  Len(wire) >= Len(c) /\ Take(wire, Len(c)) = c

\* C3 as amended: the encoding of a DigestItem, owned or borrowed, begins
\* with one byte equal to the discriminant: Other=0, ChangesTrieRoot=2,
\* Consensus=4, Seal=5, PreRuntime=6, ChangesTrieSignal=7; it is never 1 or
\* 3, and the tag byte of a PreRuntime item is 6 and decodes to PreRuntime.
TagIsOneByte ==
    Encoded("DigestItem") =>
        /\ Len(wire) >= 1
        /\ wire[1] = (CASE val.variant = "Other" -> 0
                        [] val.variant = "ChangesTrieRoot" -> 2
                        [] val.variant = "Consensus" -> 4
                        [] val.variant = "Seal" -> 5
                        [] val.variant = "PreRuntime" -> 6
                        [] val.variant = "ChangesTrieSignal" -> 7)
        /\ wire[1] \notin {1, 3}
        /\ val.variant = "PreRuntime" =>
              DigestItemTypeDecode(<<wire[1]>>) = Ok("PreRuntime", <<>>)

TagIsOneByteWitness ==
    /\ Encoded("DigestItem")
    /\ val = PreRuntime(AURA, <<1, 2>>)
    /\ wire[1] = 6

\* C4: decoding a DigestItem from a stream whose leading tag is not one of
\* 0, 2, 4, 5, 6, 7 returns the error InvalidDiscriminant and no item.
UnknownTagRejected ==
    (Decoded("DigestItem") /\ wire # <<>> /\ wire[1] \notin {0, 2, 4, 5, 6, 7})
        => (~out.ok /\ out.err = "InvalidDiscriminant")

UnknownTagRejectedWitness ==
    /\ Decoded("DigestItem")
    /\ input = "retagged"
    /\ wire[1] = 3
    /\ ~out.ok

\* C5: a DigestItem and the DigestItemRef over the same payload have the
\* same bytes, and dref gives the view of the same name and payload.
OwnedEqualsBorrowed ==
    Encoded("DigestItem") =>
        /\ wire = DigestItemEncode(val)
        /\ wire = DigestItemRefEncode(View(val))
        /\ dref(val).variant = val.variant
        /\ dref(val) = View(val)

OwnedEqualsBorrowedWitness ==
    /\ Encoded("DigestItem")
    /\ via = "ref"
    /\ val.variant = "Seal"
    /\ wire = DigestItemEncode(val)

\* The payload shape of each variant, with `index` the bytes written before
\* the presence flag of a ChangesTrieSignal.
PayloadShape(x, index) ==
    CASE x.variant = "ChangesTrieRoot" -> x.hash
      [] x.variant \in {"PreRuntime", "Consensus", "Seal"} ->
            x.engine \o CompactU32Encode(Len(x.data)) \o x.data
      [] x.variant = "ChangesTrieSignal" ->
            index \o (IF x.signal.config.some
                      THEN <<1>> \o FourBytes(x.signal.config.digest_interval)
                           \o FourBytes(x.signal.config.digest_levels)
                      ELSE <<0>>)
      [] x.variant = "Other" -> CompactU32Encode(Len(x.data)) \o x.data

\* C6 as stated: after the tag, ChangesTrieRoot writes the hash; PreRuntime,
\* Consensus and Seal the engine id and the length-prefixed payload;
\* ChangesTrieSignal the presence flag and then the fields if present; Other
\* the length-prefixed bytes; nothing else follows the tag.
PayloadShapeAsStated ==
    Encoded("DigestItem") => Drop(wire, 1) = PayloadShape(val, <<>>)

\* C6 as amended: as stated, but ChangesTrieSignal writes the variant index
\* of the signal (0, NewConfiguration) before the presence flag, and the two
\* fields as 4 little-endian bytes each.
PayloadShapeWithIndex ==
    Encoded("DigestItem") => Drop(wire, 1) = PayloadShape(val, <<0>>)

PayloadShapeWithIndexWitness ==
    /\ Encoded("DigestItem")
    /\ val = ChangesTrieSignal(NewConfiguration(SomeConfiguration(4, 2)))
    /\ wire = <<7, 0, 1, 4, 0, 0, 0, 2, 0, 0, 0>>

\* C7: equal headers have equal hashes; headers that differ in one field
\* have different encodings and (the primitive being injective) hashes.
HashSensitive ==
    (step = "hashed" /\ val.kind = "Header") =>
        /\ hash.BlockHash.data = HeaderEncode(val)
        /\ val = other => hash = hash2
        /\ val # other =>
              /\ hash.BlockHash.data # hash2.BlockHash.data
              /\ hash # hash2

HashSensitiveWitness ==
    /\ step = "hashed"
    /\ val.kind = "Header"
    /\ val.state_root # other.state_root
    /\ hash # hash2

\* C8: the hash of a Block is the hash of its header, so blocks with equal
\* headers have equal hashes whatever their extrinsics.
BlockHashFromHeader ==
    (step = "hashed" /\ val.kind = "Block") =>
        /\ hash = BlockHash(blake2_256_into(HeaderEncode(val.header)))
        /\ hash = Header_block_hash(val.header)
        /\ val.header = other.header => hash = hash2

BlockHashFromHeaderWitness ==
    /\ step = "hashed"
    /\ val.kind = "Block"
    /\ val.header = other.header
    /\ val.extrinsics # other.extrinsics
    /\ hash = hash2

\* C9: the compact format takes 1 byte below 2^6, 2 bytes below 2^14, 4
\* bytes below 2^30 and the length-prefixed mode (5 bytes for a u32) above,
\* for Header.number and for lengths; the length changes between t-1 and t
\* for t = 2^6, 2^14, 2^30.
CompactBoundaries ==
    /\ Encoded("Header") =>
          LET c == SubSeq(wire, HashLen + 1,
                          Len(wire) - 2 * HashLen - Len(DigestEncode(val.digest)))
          IN  /\ Len(c) = CompactBytes(val.number)
              /\ c[1] % 4 = (CASE Len(c) = 1 -> 0 [] Len(c) = 2 -> 1
                               [] Len(c) = 4 -> 2 [] OTHER -> 3)
              /\ Len(c) = 5 => c[1] \div 4 + 4 = Len(c) - 1
              /\ val.number = 0 => c = <<0>>
    /\ (Encoded("DigestItem") /\ val.variant = "Other") =>
          Len(wire) = 1 + CompactBytes(Len(val.data)) + Len(val.data)
    /\ (step = "hashed" /\ val.kind = "Header"
        /\ other.number - 1 = val.number
        /\ other = [val EXCEPT !.number = other.number]) =>
          LET a == Len(hash.BlockHash.data)
              b == Len(hash2.BlockHash.data)
          IN  IF other.number \in {2^6, 2^14, 2^30} THEN b > a ELSE b = a

CompactBoundariesWitness ==
    /\ step = "hashed"
    /\ val.kind = "Header"
    /\ val.number = 2^30 - 1
    /\ other = [val EXCEPT !.number = 2^30]
    /\ Len(hash2.BlockHash.data) = Len(hash.BlockHash.data) + 1

\* C10: decoding a strict prefix of encode(v), or a stream whose length
\* prefix claims more bytes or items than follow, returns the error
\* Truncated or InvalidLength and no value.
ShortReadFails ==
    (step = "decoded" /\ input \in {"truncated", "overclaimed"}) =>
        (~out.ok /\ out.err \in {"Truncated", "InvalidLength"})

ShortReadFailsWitness ==
    /\ step = "decoded"
    /\ input = "truncated"
    /\ val.kind = "Header"
    /\ Len(wire) = 3 * HashLen + 1
    /\ ~out.ok

====
